---- MODULE Spec2Model ----
(***************************************************************************)
(* A model of app-server/src/datasets/datapoints.rs: the Datapoint         *)
(* normalizer (Datapoint::try_from_raw_value), the store-row conversion,   *)
(* the three format decoders and insert_datapoints_from_file.              *)
(***************************************************************************)
EXTENDS Naturals, Sequences, FiniteSets, TLC

VARIABLES
    first,        \* the first call of try_from_raw_value: <<>> or <<[raw, fresh, out]>>
    second,       \* a second, independent call of try_from_raw_value
    again,        \* try_from_raw_value on the serialized output of the first call
    pc,           \* position of insert_datapoints_from_file: "idle", "awaiting_store", "done"
    filename,     \* its filename argument, a sequence of name tokens
    file_bytes,   \* its file_bytes argument, a sequence of text lines
    ran,          \* the decoders that have run, in order
    records,      \* the `records` local: <<>> (None) or <<decoded values>>
    store_calls,  \* every batch handed to db::datapoints::insert_raw_data, in order
    store_reply,  \* what the store answered: <<>> or <<Result of rows>>
    ret           \* the value the call returned: <<>> or <<Result of Datapoints>>

vars == <<first, second, again, pc, filename, file_bytes, ran, records,
          store_calls, store_reply, ret>>

ingestVars == <<pc, filename, file_bytes, ran, records, store_calls, store_reply, ret>>

----------------------------------------------------------------------------
(* Bounds of the model *)

NumFresh == 2      \* how many distinct values Uuid::new_v4() may return
MaxNameLen == 2    \* tokens in a filename
MaxLines == 3      \* lines in a file
MaxRows == 2       \* rows the store may return

----------------------------------------------------------------------------
(* serde_json::Value: a closed union; every value carries the same four    *)
(* fields so that any two values can be compared.                          *)

NoFields == [q \in {} |-> q]

Bool(b) == [k |-> "bool", s |-> b, o |-> NoFields, a |-> <<>>]
Number(n) == [k |-> "number", s |-> n, o |-> NoFields, a |-> <<>>]
String(t) == [k |-> "string", s |-> t, o |-> NoFields, a |-> <<>>]
Array(q) == [k |-> "array", s |-> "", o |-> NoFields, a |-> q]
Object(f) == [k |-> "object", s |-> "", o |-> f, a |-> <<>>]
Null == [k |-> "null", s |-> "", o |-> NoFields, a |-> <<>>]

(* Option<T> is a sequence of at most one element. *)
None == <<>>
Some(x) == <<x>>
is_some(opt) == opt # <<>>
unwrap_or(opt, d) == IF opt = <<>> THEN d ELSE opt[1]

(* Result<T, E> *)
Ok(x) == [ok |-> TRUE, v |-> x, e |-> ""]
Err(msg) == [ok |-> FALSE, v |-> <<>>, e |-> msg]

(* serde_json::Map::get *)
get(obj, key) == IF key \in DOMAIN obj THEN Some(obj[key]) ELSE None

(* Value::as_str *)
as_str(v) == IF v.k = "string" THEN Some(v.s) ELSE None

----------------------------------------------------------------------------
(* Uuid: a 128-bit identifier, written here in its canonical (lower-case,  *)
(* hyphenated) text.  Uuid::parse_str accepts the hyphenated and the       *)
(* simple (no hyphen) spelling of the same identifier.                     *)

UuidA == "67e55044-10b1-426f-9247-bb680e5fe0c8"
UuidASimple == "67e5504410b1426f9247bb680e5fe0c8"
UuidDataset == "936da01f-9abd-4d9d-80c7-02af85c822a8"
UuidOther == "0a0b0c0d-0000-4000-8000-000000000001"

Uuid_parse_str(s) ==
    IF s \in {UuidA, UuidASimple} THEN Some(UuidA)
    ELSE IF s = UuidDataset THEN Some(UuidDataset)
    ELSE IF s = UuidOther THEN Some(UuidOther)
    ELSE None

(* Uuid::new_v4: a random identifier; the caller cannot predict which. *)
FreshUuids == {"f0000000-0000-4000-8000-00000000000" \o ToString(i) : i \in 1..NumFresh}

----------------------------------------------------------------------------
(* Datapoint and Datapoint::try_from_raw_value *)

Datapoint(id, dataset_id, data, target, metadata) ==
    [id |-> id, dataset_id |-> dataset_id, data |-> data, target |-> target,
     metadata |-> metadata]

(* a variant that also lets `dataset_id` through *)
RecognizedKeys_with_dataset_id == {"data", "target", "metadata", "id", "dataset_id"}

(* the keys of matches!(k.as_str(), "data" | "target" | "metadata" | "id") *)
RecognizedKeys == {"data", "target", "metadata", "id"}

(* a variant that never reads `id` *)
extract_id_always_fresh(raw_obj, fresh) == fresh

(* raw_obj.get("id").and_then(as_str).and_then(parse_str.ok()).unwrap_or(new_v4()) *)
extract_id(raw_obj, fresh) ==
    LET v == get(raw_obj, "id")
        s == IF is_some(v) THEN as_str(v[1]) ELSE None
        u == IF is_some(s) THEN Uuid_parse_str(s[1]) ELSE None
    IN  unwrap_or(u, fresh)

(* a variant without the test of the keys *)
is_canonical_any_keys(raw_obj) == is_some(get(raw_obj, "data"))

(* data.is_some() && raw_obj.keys().all(|k| matches!(k, "data"|"target"|"metadata"|"id")) *)
is_canonical(raw_obj) ==
    /\ is_some(get(raw_obj, "data"))
    /\ \A key \in DOMAIN raw_obj : key \in RecognizedKeys

(* serde_json::from_value::<HashMap<String, Value>>(v): only an object is a map *)
from_value_HashMap(v) ==
    IF v.k = "object" THEN Ok(v.o) ELSE Err("invalid type: expected a map")

(* Result::unwrap_or_default for HashMap *)
unwrap_or_default(res) == IF res.ok THEN res.v ELSE NoFields

(* a variant that builds HashMap::new() as the other arms do *)
parse_metadata_always_empty(raw_obj) == NoFields

(* from_value::<HashMap<..>>(raw_obj.get("metadata").unwrap_or(&Null)).unwrap_or_default() *)
parse_metadata(raw_obj) ==
    unwrap_or_default(from_value_HashMap(unwrap_or(get(raw_obj, "metadata"), Null)))

(* a variant that treats `false` as it treats null *)
other_arm_drops_false(dataset_id, x, fresh) ==
    IF x.k = "bool" /\ x.s = "false" THEN None
    ELSE Some(Datapoint(fresh, dataset_id, x, None, NoFields))

(* the `x => Some(Datapoint {..})` arm *)
other_arm(dataset_id, x, fresh) ==
    Some(Datapoint(fresh, dataset_id, x, None, NoFields))

try_from_raw_value(dataset_id, raw, fresh) ==
    IF raw.k = "object" THEN
        LET raw_obj == raw.o
            data == get(raw_obj, "data")
            id == extract_id(raw_obj, fresh)
        IN  IF is_canonical(raw_obj)
            THEN LET metadata == parse_metadata(raw_obj)
                 IN  Some(Datapoint(id, dataset_id, data[1], get(raw_obj, "target"),
                                    metadata))
            ELSE Some(Datapoint(id, dataset_id, raw, None, NoFields))
    ELSE IF raw.k = "null" THEN None
    ELSE other_arm(dataset_id, raw, fresh)

(* #[derive(Serialize)] #[serde(rename_all = "camelCase")]: the object a    *)
(* Datapoint serializes to.  An absent target is written as null.          *)
Serialize(dp) ==
    Object([key \in {"id", "datasetId", "data", "target", "metadata"} |->
        CASE key = "id" -> String(dp.id)
          [] key = "datasetId" -> String(dp.dataset_id)
          [] key = "data" -> dp.data
          [] key = "target" -> unwrap_or(dp.target, Null)
          [] key = "metadata" -> Object(dp.metadata)])

----------------------------------------------------------------------------
(* The raw values the normalizer is run on. *)

ObjK == Object([q \in {"k"} |-> Number("1")])

ScalarValues == {Null, Number("5"), String("x"), String(UuidA), Bool("false"),
                 Array(<<Number("1"), Number("2")>>)}

KeyValues(key) ==
    CASE key = "data" -> {Null, Number("1"), ObjK}
      [] key = "target" -> {String("x")}
      [] key = "metadata" -> {Null, String("x"), ObjK}
      [] key = "id" -> {String(UuidA), String(UuidASimple), String("not-a-uuid"),
                        Number("1")}
      [] key = "dataset_id" -> {String(UuidOther)}

RawKeys == {"data", "target", "metadata", "id", "dataset_id"}

RawObjects ==
    {Object(f) : f \in UNION {
        {g \in [K -> UNION {KeyValues(key) : key \in K}] :
            \A key \in K : g[key] \in KeyValues(key)} : K \in SUBSET RawKeys}}

RawValues == ScalarValues \cup RawObjects

Call(raw, fresh) ==
    [raw |-> raw, fresh |-> fresh, out |-> try_from_raw_value(UuidDataset, raw, fresh)]

----------------------------------------------------------------------------
(* impl From<DBDatapoint> for Datapoint *)

from_DBDatapoint(db_datapoint) ==
    Datapoint(db_datapoint.id, db_datapoint.dataset_id, db_datapoint.data,
              db_datapoint.target,
              unwrap_or_default(from_value_HashMap(db_datapoint.metadata)))

----------------------------------------------------------------------------
(* File contents: a file is a sequence of text lines.  Each line text is   *)
(* read by the csv reader as one record and by serde_json as one document. *)

LineTexts == {"a,b", "a,a", "1,2", "1,2,3", "<FF>,1", "[{\"data\":1},null]"}

(* csv::Reader reading one line as a record of fields: the fields, or a     *)
(* UTF-8 error for the line holding the byte FF.                           *)
csv_fields(text) ==
    CASE text = "a,b" -> Ok(<<"a", "b">>)
      [] text = "a,a" -> Ok(<<"a", "a">>)
      [] text = "1,2" -> Ok(<<"1", "2">>)
      [] text = "1,2,3" -> Ok(<<"1", "2", "3">>)
      [] text = "<FF>,1" -> Err("invalid utf-8")
      [] text = "[{\"data\":1},null]" -> Ok(<<"[{\"data\":1}", "null]">>)

(* how many fields the byte record of a line has, whatever its encoding *)
csv_field_count(text) == IF text = "1,2,3" THEN 3 ELSE 2

(* serde_json reading one line as a document *)
json_from_str(text) ==
    IF text = "[{\"data\":1},null]"
    THEN Ok(Array(<<Object([q \in {"data"} |-> Number("1")]), Null>>))
    ELSE Err("expected value")

(* serde_json::from_slice on the whole buffer: one document, nothing after it *)
json_from_slice(bytes) ==
    IF Len(bytes) = 0 THEN Err("EOF while parsing a value")
    ELSE IF Len(bytes) = 1 THEN json_from_str(bytes[1])
    ELSE IF json_from_str(bytes[1]).ok THEN Err("trailing characters")
    ELSE Err("expected value")

----------------------------------------------------------------------------
(* read_bytes_jsonl: every line is one value; the first bad line fails all *)

RECURSIVE jsonl_read_all(_, _, _)
jsonl_read_all(bytes, i, acc) ==
    IF i > Len(bytes) THEN Ok(acc)
    ELSE LET v == json_from_str(bytes[i])
         IN  IF v.ok THEN jsonl_read_all(bytes, i + 1, Append(acc, v.v))
             ELSE Err("error parsing jsonlines: " \o v.e)

read_bytes_jsonl(bytes) == jsonl_read_all(bytes, 1, <<>>)

(* read_bytes_json: the buffer must hold one array *)
read_bytes_json(bytes) ==
    LET content == json_from_slice(bytes)
    IN  IF ~content.ok THEN Err(content.e)
        ELSE IF content.v.k = "array" THEN Ok(content.v.a)
        ELSE Err("the file must contain an array of json objects")

----------------------------------------------------------------------------
(* read_bytes_csv *)

(* reader.headers(): the first record; an empty input has an empty header *)
csv_headers(bytes) == IF bytes = <<>> THEN Ok(<<>>) ELSE csv_fields(bytes[1])

(* a variant with a flexible reader, which accepts any field count *)
csv_next_record_flexible(headers, text) == csv_fields(text)

(* one item of reader.records(): the reader is not flexible, so a record   *)
(* whose field count differs from the header's is an error                 *)
csv_next_record(headers, text) ==
    IF csv_field_count(text) # Len(headers) THEN Err("unequal lengths")
    ELSE csv_fields(text)

(* record.get(i).unwrap_or_default() *)
record_get_or_default(record, i) == IF i <= Len(record) THEN record[i] ELSE ""

(* for i in 0..headers.len() { row.insert(header, value) } *)
RECURSIVE csv_row(_, _, _, _)
csv_row(headers, record, i, row) ==
    IF i > Len(headers) THEN row
    ELSE csv_row(headers, record, i + 1,
                 (headers[i] :> String(record_get_or_default(record, i))) @@ row)

(* for record in reader.records() { .. } *)
RECURSIVE csv_loop(_, _, _, _)
csv_loop(headers, bytes, i, result) ==
    IF i > Len(bytes) THEN result
    ELSE LET record == csv_next_record(headers, bytes[i])
         IN  IF ~record.ok THEN csv_loop(headers, bytes, i + 1, result)
             ELSE csv_loop(headers, bytes, i + 1,
                           Append(result, Object(csv_row(headers, record.v, 1, NoFields))))

read_bytes_csv(bytes) ==
    LET headers == csv_headers(bytes)
    IN  IF ~headers.ok THEN Err(headers.e)
        ELSE Ok(csv_loop(headers.v, bytes, 2, <<>>))

----------------------------------------------------------------------------
(* insert_datapoints_from_file *)

NameTokens == {".", "json", "jsonl", "csv", "JSON", "txt"}

(* filename.split("."): the pieces between the dots, as strings *)
RECURSIVE split(_, _, _, _)
split(name, i, cur, acc) ==
    IF i > Len(name) THEN Append(acc, cur)
    ELSE IF name[i] = "." THEN split(name, i + 1, "", Append(acc, cur))
    ELSE split(name, i + 1, cur \o name[i], acc)

(* filename.split(".").last().unwrap_or_default() *)
extension_of(name) ==
    LET parts == split(name, 1, "", <<>>)
    IN  IF parts = <<>> THEN "" ELSE parts[Len(parts)]

Unsupported ==
    "Attempting to process file as unstructured even though requested as structured"

(* the if / else-if chain choosing the decoder: which ran, and `records` *)
decode(bytes, name) ==
    LET extension == extension_of(name)
    IN  IF extension = "jsonl"
        THEN [ran |-> <<"read_bytes_jsonl">>, records |-> Some(read_bytes_jsonl(bytes))]
        ELSE IF extension = "json"
        THEN [ran |-> <<"read_bytes_json">>, records |-> Some(read_bytes_json(bytes))]
        ELSE IF extension = "csv"
        THEN [ran |-> <<"read_bytes_csv">>, records |-> Some(read_bytes_csv(bytes))]
        ELSE [ran |-> <<>>, records |-> None]

(* a variant that loses the last row *)
collect_datapoints_drops_last(datapoints) ==
    [i \in 1..(Len(datapoints) - 1) |-> from_DBDatapoint(datapoints[i])]

(* datapoints.into_iter().map(|dp| dp.into()).collect() *)
collect_datapoints(datapoints) ==
    [i \in 1..Len(datapoints) |-> from_DBDatapoint(datapoints[i])]

(* Rows db::datapoints::insert_raw_data may return. *)
StoredRows ==
    {[id |-> UuidA, dataset_id |-> UuidDataset, data |-> Number("1"),
      target |-> None, metadata |-> ObjK],
     [id |-> UuidOther, dataset_id |-> UuidDataset, data |-> ObjK,
      target |-> Some(String("x")), metadata |-> Null]}

StoreReplies ==
    {Err("storage error")} \cup
    {Ok(rows) : rows \in UNION {[1..n -> StoredRows] : n \in 0..MaxRows}}

Filenames == UNION {[1..n -> NameTokens] : n \in 0..MaxNameLen}
Files == UNION {[1..n -> LineTexts] : n \in 0..MaxLines}

(* The call runs without suspension up to the store's await: the extension *)
(* test, the decoder, `?` on its result, and the hand-over of the batch.   *)
Begin ==
    /\ pc = "idle"
    /\ LET d == decode(file_bytes, filename)
       IN  /\ ran' = d.ran
           /\ IF is_some(d.records) /\ ~d.records[1].ok
              THEN /\ records' = None
                   /\ store_calls' = store_calls
                   /\ ret' = Some(Err(d.records[1].e))
                   /\ pc' = "done"
              ELSE IF is_some(d.records)
              THEN /\ records' = Some(d.records[1].v)
                   /\ store_calls' = Append(store_calls, d.records[1].v)
                   /\ ret' = ret
                   /\ pc' = "awaiting_store"
              ELSE /\ records' = None
                   /\ store_calls' = store_calls
                   /\ ret' = Some(Err(Unsupported))
                   /\ pc' = "done"
    /\ UNCHANGED <<filename, file_bytes, store_reply, first, second, again>>

(* The awaited insert_raw_data answers; `?` returns its error, otherwise   *)
(* the rows are converted.                                                 *)
StoreAnswers ==
    /\ pc = "awaiting_store"
    /\ \E reply \in StoreReplies :
        /\ store_reply' = Some(reply)
        /\ ret' = IF reply.ok THEN Some(Ok(collect_datapoints(reply.v)))
                  ELSE Some(Err(reply.e))
    /\ pc' = "done"
    /\ UNCHANGED <<filename, file_bytes, ran, records, store_calls, first, second, again>>

IngestInit ==
    /\ pc = "idle"
    /\ filename \in Filenames
    /\ file_bytes \in Files
    /\ ran = <<>>
    /\ records = <<>>
    /\ store_calls = <<>>
    /\ store_reply = <<>>
    /\ ret = <<>>
    /\ first = <<>>
    /\ second = <<>>
    /\ again = <<>>

IngestNext == Begin \/ StoreAnswers

SpecIngest == IngestInit /\ [][IngestNext]_vars

----------------------------------------------------------------------------
(* The normalizer on its own: two independent calls, and one call on the   *)
(* serialized output of the first.                                         *)

NormalizeFirst ==
    /\ first = <<>>
    /\ \E raw \in RawValues, fresh \in FreshUuids : first' = <<Call(raw, fresh)>>
    /\ UNCHANGED <<second, again>>
    /\ UNCHANGED ingestVars

NormalizeSecond ==
    /\ first # <<>> /\ second = <<>> /\ again = <<>>
    /\ \E raw \in RawValues, fresh \in FreshUuids : second' = <<Call(raw, fresh)>>
    /\ UNCHANGED <<first, again>>
    /\ UNCHANGED ingestVars

NormalizeOwnOutput ==
    /\ first # <<>> /\ second = <<>> /\ again = <<>>
    /\ is_some(first[1].out)
    /\ \E fresh \in FreshUuids : again' = <<Call(Serialize(first[1].out[1]), fresh)>>
    /\ UNCHANGED <<first, second>>
    /\ UNCHANGED ingestVars

NormInit ==
    /\ first = <<>>
    /\ second = <<>>
    /\ again = <<>>
    /\ pc = "idle"
    /\ filename = <<>>
    /\ file_bytes = <<>>
    /\ ran = <<>>
    /\ records = <<>>
    /\ store_calls = <<>>
    /\ store_reply = <<>>
    /\ ret = <<>>

NormNext == NormalizeFirst \/ NormalizeSecond \/ NormalizeOwnOutput

SpecNormalize == NormInit /\ [][NormNext]_vars

----------------------------------------------------------------------------
(* Properties of the normalizer, checked under SpecNormalize *)

AllCalls == first \o second \o again

ClaimKeys == {"data", "target", "metadata", "id"}

(* a raw object that has `data` and only keys among data, target, metadata, id *)
CanonicalShape(raw) ==
    /\ raw.k = "object"
    /\ "data" \in DOMAIN raw.o
    /\ DOMAIN raw.o \subseteq ClaimKeys

SameFields(x, y) ==
    /\ x.data = y.data
    /\ x.target = y.target
    /\ x.metadata = y.metadata

C2_WrapWholeObject ==
    \A i \in DOMAIN AllCalls :
        LET c == AllCalls[i]
        IN  (c.raw.k = "object" /\ ~CanonicalShape(c.raw)) =>
              /\ c.out # <<>>
              /\ c.out[1].data = c.raw
              /\ c.out[1].target = <<>>
              /\ c.out[1].metadata = NoFields

C2_Witness ==
    /\ first # <<>> /\ second # <<>>
    /\ DOMAIN first[1].raw.o = {"data", "target", "metadata", "id", "dataset_id"}
    /\ first[1].out[1].data = first[1].raw
    /\ second[1].raw.k = "object"
    /\ DOMAIN second[1].raw.o = {"target", "metadata", "id"}
    /\ second[1].out[1].data = second[1].raw

(* C3: no Datapoint is returned exactly when the raw value is null; a       *)
(* non-null value that is not an object yields a Datapoint whose data is    *)
(* the value, with absent target and empty metadata.                       *)
C3_NoneOnlyForNull ==
    \A i \in DOMAIN AllCalls :
        LET c == AllCalls[i]
        IN  /\ (c.out = <<>>) <=> (c.raw.k = "null")
            /\ (c.raw.k \notin {"null", "object"}) =>
                  /\ c.out # <<>>
                  /\ c.out[1].data = c.raw
                  /\ c.out[1].target = <<>>
                  /\ c.out[1].metadata = NoFields

C3_Witness ==
    /\ first # <<>> /\ second # <<>>
    /\ first[1].raw = Null /\ first[1].out = <<>>
    /\ second[1].raw = Bool("false") /\ second[1].out # <<>>

(* C4: every Datapoint the normalizer returns has data different from null. *)
C4_DataNonNull ==
    \A i \in DOMAIN AllCalls :
        AllCalls[i].out # <<>> => AllCalls[i].out[1].data # Null

HasValidId(raw) ==
    /\ raw.k = "object"
    /\ "id" \in DOMAIN raw.o
    /\ raw.o["id"].k = "string"
    /\ Uuid_parse_str(raw.o["id"].s) # <<>>

(* C5: an object whose `id` is a string in the identifier format yields     *)
(* that identifier, in the canonical and in the wrap-whole-object branch,   *)
(* so two normalizations of the same such object agree on the id; with a    *)
(* missing, non-string or unparseable `id` a Datapoint is still returned    *)
(* and carries the generated id; a non-object value gets the generated id.  *)
C5_StableId ==
    /\ \A i \in DOMAIN AllCalls :
          LET c == AllCalls[i]
          IN  /\ HasValidId(c.raw) =>
                    /\ c.out # <<>>
                    /\ c.out[1].id = Uuid_parse_str(c.raw.o["id"].s)[1]
              /\ (c.raw.k # "null" /\ ~HasValidId(c.raw)) =>
                    /\ c.out # <<>>
                    /\ c.out[1].id = c.fresh
    /\ (first # <<>> /\ second # <<>> /\ first[1].raw = second[1].raw
            /\ HasValidId(first[1].raw)) =>
          first[1].out[1].id = second[1].out[1].id

C5_Witness ==
    /\ first # <<>> /\ second # <<>>
    /\ first[1].raw = second[1].raw
    /\ first[1].fresh # second[1].fresh
    /\ HasValidId(first[1].raw)
    /\ ~CanonicalShape(first[1].raw)
    /\ first[1].raw.o["id"].s = UuidASimple
    /\ first[1].out[1].id = UuidA
    /\ second[1].out[1].id = UuidA

(* C6: normalizing an object of canonical shape, serializing the resulting  *)
(* Datapoint and normalizing that object again reproduces the same data,    *)
(* target and metadata.                                                     *)
C6_RoundTrip ==
    (again # <<>> /\ CanonicalShape(first[1].raw)) =>
        /\ again[1].out # <<>>
        /\ SameFields(again[1].out[1], first[1].out[1])

WithoutId(raw) ==
    IF raw.k = "object" THEN Object([key \in DOMAIN raw.o \ {"id"} |-> raw.o[key]])
    ELSE raw

MappingOf(raw) ==
    IF "metadata" \in DOMAIN raw.o /\ raw.o["metadata"].k = "object"
    THEN raw.o["metadata"].o ELSE NoFields

TargetOf(raw) == IF "target" \in DOMAIN raw.o THEN <<raw.o["target"]>> ELSE <<>>

----------------------------------------------------------------------------
(* Properties of the decoders and of insert_datapoints_from_file, checked   *)
(* under SpecIngest                                                         *)

HasDot(name) == \E i \in DOMAIN name : name[i] = "."

(* C7: the decoder is chosen by the filename's final extension: .jsonl,     *)
(* .json and .csv run their decoder; any other extension, and any name      *)
(* without a `.`, fails with the unsupported-format error, runs no decoder  *)
(* and does not call the store.                                             *)
C7_ByFinalExtension ==
    pc # "idle" =>
        LET extension == extension_of(filename)
        IN  IF HasDot(filename) /\ extension = "jsonl" THEN ran = <<"read_bytes_jsonl">>
            ELSE IF HasDot(filename) /\ extension = "json" THEN ran = <<"read_bytes_json">>
            ELSE IF HasDot(filename) /\ extension = "csv" THEN ran = <<"read_bytes_csv">>
            ELSE /\ ran = <<>>
                 /\ store_calls = <<>>
                 /\ ret = <<Err(Unsupported)>>

DecoderResult ==
    CASE ran = <<"read_bytes_jsonl">> -> read_bytes_jsonl(file_bytes)
      [] ran = <<"read_bytes_json">> -> read_bytes_json(file_bytes)
      [] ran = <<"read_bytes_csv">> -> read_bytes_csv(file_bytes)

(* C8: the store is written at most once, with the one batch of all decoded *)
(* values in decoder order, and only after decoding succeeded; a failed     *)
(* decode never reaches the store; a failed store write is returned as the  *)
(* call's error with no Datapoints; on success the call returns one         *)
(* Datapoint per stored row, in the store's order.                          *)
C8_SingleBatch ==
    /\ Len(store_calls) <= 1
    /\ Len(ran) <= 1
    /\ store_calls # <<>> =>
          /\ ran # <<>>
          /\ DecoderResult.ok
          /\ store_calls = <<DecoderResult.v>>
    /\ (ran # <<>> /\ ~DecoderResult.ok) =>
          /\ store_calls = <<>>
          /\ store_reply = <<>>
          /\ ret = <<Err(DecoderResult.e)>>
    /\ store_reply # <<>> => store_calls # <<>>
    /\ pc = "awaiting_store" => (ret = <<>> /\ store_reply = <<>>)
    /\ (store_reply # <<>> /\ ~store_reply[1].ok) =>
          ret = <<Err(store_reply[1].e)>>
    /\ (store_reply # <<>> /\ store_reply[1].ok) =>
          LET rows == store_reply[1].v
          IN  /\ Len(ret) = 1
              /\ ret[1].ok
              /\ Len(ret[1].v) = Len(rows)
              /\ \A i \in 1..Len(rows) :
                    /\ ret[1].v[i].id = rows[i].id
                    /\ ret[1].v[i].dataset_id = rows[i].dataset_id
                    /\ ret[1].v[i].data = rows[i].data
                    /\ ret[1].v[i].target = rows[i].target
                    /\ ret[1].v[i].metadata =
                          (IF rows[i].metadata.k = "object" THEN rows[i].metadata.o
                           ELSE NoFields)

C8_Witness ==
    /\ pc = "done"
    /\ Len(store_calls) = 1
    /\ Len(store_calls[1]) = 2
    /\ store_reply # <<>>
    /\ store_reply[1].ok
    /\ Len(store_reply[1].v) = 2
    /\ store_reply[1].v[1] # store_reply[1].v[2]
    /\ Len(ret[1].v) = 2

CellAt(cells, j) == IF j <= Len(cells) THEN cells[j] ELSE ""

RowParses(header, text) ==
    /\ csv_fields(text).ok
    /\ Len(csv_fields(text).v) = Len(header)

ParsedRows(header, bytes) ==
    LET Parses(text) == RowParses(header, text)
    IN  SelectSeq(Tail(bytes), Parses)

(* every column's name maps to that column's cell *)
EveryColumn(header, cells, obj) ==
    /\ obj.k = "object"
    /\ DOMAIN obj.o = {header[j] : j \in 1..Len(header)}
    /\ \A j \in 1..Len(header) : obj.o[header[j]] = String(CellAt(cells, j))

(* every column name maps to the cell of the last column bearing it *)
LastColumn(header, cells, obj) ==
    /\ obj.k = "object"
    /\ DOMAIN obj.o = {header[j] : j \in 1..Len(header)}
    /\ \A j \in 1..Len(header) :
          (\A h \in (j + 1)..Len(header) : header[h] # header[j]) =>
              obj.o[header[j]] = String(CellAt(cells, j))

CsvSkipAndContinue(lastWins) ==
    ran = <<"read_bytes_csv">> =>
        IF file_bytes = <<>> THEN records = <<(<<>>)>>
        ELSE IF ~csv_fields(file_bytes[1]).ok
        THEN records = <<>> /\ ret # <<>> /\ ~ret[1].ok /\ store_calls = <<>>
        ELSE LET header == csv_fields(file_bytes[1]).v
                 rows == ParsedRows(header, file_bytes)
             IN  /\ Len(records) = 1
                 /\ Len(records[1]) = Len(rows)
                 /\ \A i \in 1..Len(rows) :
                       IF lastWins
                       THEN LastColumn(header, csv_fields(rows[i]).v, records[1][i])
                       ELSE EveryColumn(header, csv_fields(rows[i]).v, records[1][i])

(* C9: once the header is read, read_bytes_csv succeeds and returns, in     *)
(* input order, one object per row that parsed; a row that does not parse,  *)
(* one with fewer or more fields than the header included, contributes      *)
(* nothing and does not stop the rows after it; only an unreadable header   *)
(* fails the decode.  Each object maps every header column name to the      *)
(* row's cell in that column.                                               *)
C9_EveryColumn == CsvSkipAndContinue(FALSE)

(* C9 as amended: the same, except that a column name occurring more than   *)
(* once in the header maps to the row's cell in the last column bearing it. *)
C9_LastColumn == CsvSkipAndContinue(TRUE)

C9_Witness ==
    /\ ran = <<"read_bytes_csv">>
    /\ file_bytes = <<"a,b", "1,2,3", "1,2">>
    /\ records = <<(<<Object([q \in {"a", "b"} |-> IF q = "a" THEN String("1")
                                                   ELSE String("2")])>>)>>

====
